---- MODULE Spec2Model ----
(***************************************************************************)
(* A model of the two MNIST training scripts, src/simplest-nn-oo.py (the   *)
(* Net class) and src/simplest-nn.py (the functional implementation).      *)
(*                                                                         *)
(* Numbers are fixed-point integers.  Pixels, weights and hidden           *)
(* activations are in units of 1; probabilities, one-hot targets, errors   *)
(* and gradients are in units of 1/One.  exp, log and the float division   *)
(* by the batch row count are quantised to the nearest representable       *)
(* value.  A matrix is a sequence of rows; a batch is a pair of sequences  *)
(* of row indices into train_x and train_y (numpy slices are views).       *)
(***************************************************************************)
EXTENDS Integers, Sequences, FiniteSets, TLC

VARIABLES
    impl,         \* "oo": simplest-nn-oo.py, "fn": simplest-nn.py
    train_x, train_y, test_x, test_y,
    hidden,       \* the `layers` argument: the list of hidden widths
    cycles, lr, batch_size,
    seed,         \* the state of the seeded generator that randn draws from
    layers,       \* Net.layers (oo): the Layer objects, in order
    weights,      \* the weights list (fn)
    batches,      \* train_batches, one batch list per cycle
    e, idxs,      \* batch_data: its loop variable, the permutation shuffle drew
    cycle, b,     \* train: the cycle and the batch being processed (b from 1)
    cost, acc,    \* train: the running sums of one cycle (rationals)
    costs, accs, times,
    stats,        \* what train returned
    tests,        \* what each call of test returned
    calls,        \* how many forward / backward calls and weight updates ran
    last_call,    \* the last call made on the Dense layer under test
    pc, err

cfgvars == <<impl, train_x, train_y, test_x, test_y, hidden, cycles, lr, batch_size, seed>>
netvars == <<layers, weights>>
bdvars == <<e, idxs>>
loopvars == <<cycle, b, cost, acc, costs, accs, times>>
vars == <<cfgvars, netvars, batches, bdvars, loopvars, stats, tests, calls, last_call, pc, err>>

----------------------------------------------------------------------------
(* Bounds of the model. *)
MaxRows == 3
MaxCycles == 3
MaxTests == 2
MaxSteps == 2

(* Program constants. *)
Classes == 10
FnBatchSize == 64
One == 4

None == <<>>

----------------------------------------------------------------------------
(* Integer and rational helpers. *)

Abs(x) == IF x < 0 THEN -x ELSE x

RECURSIVE GCD(_, _)
GCD(x, y) == IF y = 0 THEN x ELSE GCD(y, x % y)

\* The rational n/d (d > 0) in lowest terms.
Frac(n, d) ==
    LET g == GCD(Abs(n), d) IN <<n \div g, d \div g>>

FracAdd(p, q) == Frac(p[1] * q[2] + q[1] * p[2], p[2] * q[2])

FracDivInt(p, k) == Frac(p[1], p[2] * k)

FracMulInt(p, k) == Frac(p[1] * k, p[2])

FracGeq(p, k) == p[1] >= k * p[2]

\* x / m in floating point, quantised: the quotient rounded toward zero.
Quot(x, m) == IF x >= 0 THEN x \div m ELSE -((-x) \div m)

\* python's a // b (b # 0): the floor of the quotient, for either sign of b.
FloorDiv(a, d) ==
    IF d > 0 THEN a \div d ELSE -((a + (-d) - 1) \div (-d))

\* n/d rounded to the nearest integer, halves to the even one (numpy.around).
RoundHalfEven(n, d) ==
    LET q == n \div d
        r == n % d
    IN  IF 2 * r < d THEN q
        ELSE IF 2 * r > d THEN q + 1
        ELSE IF q % 2 = 0 THEN q ELSE q + 1

RECURSIVE Pow10(_)
Pow10(k) == IF k = 0 THEN 1 ELSE 10 * Pow10(k - 1)

\* blas.around(p, decimals) of the rational p, in units of 10^-decimals.
Around(p, decimals) == RoundHalfEven(p[1] * Pow10(decimals), p[2])

RECURSIVE SumSeq(_)
SumSeq(s) == IF Len(s) = 0 THEN 0 ELSE s[1] + SumSeq(Tail(s))

RECURSIVE MaxSeq(_)
MaxSeq(s) == IF Len(s) = 1 THEN s[1]
             ELSE LET m == MaxSeq(Tail(s)) IN IF s[1] >= m THEN s[1] ELSE m

\* numpy argmax of one row: the first index of the maximum (0-based in the
\* code, 1-based here).
ArgMax(row) == CHOOSE j \in 1..Len(row) :
                  /\ row[j] = MaxSeq(row)
                  /\ \A k \in 1..(j - 1) : row[k] # row[j]

----------------------------------------------------------------------------
(* Matrices. *)

\* The sequence a function over 1..n denotes, with its elements computed.
Vec(f) == f \o <<>>

NRows(A) == Len(A)
NCols(A) == IF Len(A) = 0 THEN 0 ELSE Len(A[1])

\* A.dot(B): the rows of A by the columns of B.
Dot(A, B) ==
    Vec([i \in 1..Len(A) |->
        Vec([j \in 1..NCols(B) |->
            SumSeq(Vec([k \in 1..Len(B) |-> A[i][k] * B[k][j]]))])])

\* A.T
Transpose(A) == Vec([j \in 1..NCols(A) |-> Vec([i \in 1..Len(A) |-> A[i][j]])])

MatSub(A, B) ==
    Vec([i \in 1..Len(A) |-> Vec([j \in 1..Len(A[i]) |-> A[i][j] - B[i][j]])])

MatScale(A, k) ==
    Vec([i \in 1..Len(A) |-> Vec([j \in 1..Len(A[i]) |-> A[i][j] * k])])

\* The elementwise product A * B of two matrices of one shape.
MatMul(A, B) ==
    Vec([i \in 1..Len(A) |-> Vec([j \in 1..Len(A[i]) |-> A[i][j] * B[i][j]])])

IsZero(A) == \A i \in 1..Len(A) : \A j \in 1..Len(A[i]) : A[i][j] = 0

\* X[idx]: the rows of X that a sequence of row indices selects.
Take(X, idx) == Vec([i \in 1..Len(idx) |-> X[idx[i]]])

\* The python slice start:end of a sequence of `len` rows, as row indices
\* (1-based): numpy clamps both ends to the length.
Slice(len, start, end) ==
    LET lo == IF start > len THEN len ELSE start
        hi == IF end > len THEN len ELSE end
    IN  Vec([i \in 1..(IF hi > lo THEN hi - lo ELSE 0) |-> lo + i])

----------------------------------------------------------------------------
(* Data functions. *)

\* one_hot(Y, classes): row i holds 1.0 at the label of row i (labels 0..9 in
\* the code, 1..10 here) and 0 elsewhere.
one_hot(Y, classes) ==
    Vec([i \in 1..Len(Y) |-> Vec([j \in 1..classes |-> IF j = Y[i] THEN One ELSE 0])])

\* The permutations blas.random.shuffle can leave in idxs.
Perms(n) ==
    {p \in [1..n -> 1..n] : \A i, j \in 1..n : i # j => p[i] # p[j]}

\* shuffle(X, Y): (X[idxs], Y[idxs]) as row indices; both use one idxs.
shuffle(p) == [x |-> p, y |-> p]

\* What shuffle raises: idxs runs over the rows of X, and Y[idxs] needs Y to
\* have them all.
ShuffleError(m, my) == IF my < m THEN "IndexError" ELSE "ok"

\* What one pass of batch_data's outer loop raises: the shuffle comes first,
\* then m // batch_size.
CycleError(m, my, bs) ==
    IF ShuffleError(m, my) # "ok" THEN ShuffleError(m, my)
    ELSE IF bs = 0 THEN "ZeroDivisionError"
    ELSE "ok"

\* One pass of batch_data's outer loop body after the shuffle: the batch list
\* of one cycle.  m is X.shape[0], my is Y.shape[0].
CycleBatches(m, my, bs) ==
    LET num_batches == FloorDiv(m, bs)
        regular == Vec([k \in 1..(IF num_batches - 1 > 0 THEN num_batches - 1 ELSE 0) |->
                      [x |-> Slice(m, (k - 1) * bs, k * bs),
                       y |-> Slice(my, (k - 1) * bs, k * bs)]])
        last_start == num_batches * bs
    IN  Append(regular, [x |-> Slice(m, last_start, m), y |-> Slice(my, last_start, my)])

\* batch_data(X, Y, batch_size, cycles): every cycle's batch list.
batch_data(m, my, bs, cyc) ==
    Vec([c \in 1..(IF cyc > 0 THEN cyc ELSE 0) |-> CycleBatches(m, my, bs)])

----------------------------------------------------------------------------
(* Layers. *)

\* blas.random.randn(r, c) * sqrt(2/r), drawn by the generator in state s for
\* the l-th weight matrix: entries in {-1, 0, 1}.
Randn(s, l, r, c) ==
    Vec([i \in 1..r |-> Vec([j \in 1..c |-> ((i + 2 * j + l + s) % 3) - 1])])

\* What Dense([r, c]) raises, if anything: randn refuses a negative
\* dimension, and 2.0/r divides by zero.
DenseInitError(r, c) ==
    IF r < 0 \/ c < 0 THEN "ValueError"
    ELSE IF r = 0 THEN "ZeroDivisionError"
    ELSE "ok"

Dense(s, l, r, c) ==
    [type |-> "Dense", weights |-> Randn(s, l, r, c), input |-> None, output |-> None]

Softplus == [type |-> "Softplus", weights |-> None, input |-> None, output |-> None]

Softmax == [type |-> "Softmax", weights |-> None, input |-> None, output |-> None]

\* log(1 + exp(z)), to the nearest integer.
SoftplusFn(z) == IF z < 0 THEN 0 ELSE IF z = 0 THEN 1 ELSE z

\* exp(z) / (1 + exp(z)), to the nearest integer (a half rounds to even).
SigmoidFn(z) == IF z > 0 THEN 1 ELSE 0

\* exp(-d) for d >= 0, in units of 1/One.
ExpNeg(d) == IF d = 0 THEN One ELSE IF d <= 2 THEN 1 ELSE 0

\* One row of the softmax: subtract the row maximum, exponentiate, divide by
\* the row sum.
SoftmaxRow(z) ==
    LET mx == MaxSeq(z)
        ez == Vec([j \in 1..Len(z) |-> ExpNeg(mx - z[j])])
        total == SumSeq(ez)
    IN  Vec([j \in 1..Len(z) |-> (One * ez[j]) \div total])

SoftplusMat(Z) ==
    Vec([i \in 1..Len(Z) |-> Vec([j \in 1..Len(Z[i]) |-> SoftplusFn(Z[i][j])])])

SigmoidMat(Z) ==
    Vec([i \in 1..Len(Z) |-> Vec([j \in 1..Len(Z[i]) |-> SigmoidFn(Z[i][j])])])

SoftmaxMat(Z) == Vec([i \in 1..Len(Z) |-> SoftmaxRow(Z[i])])

\* Dense.forward: caches the input, returns input . weights.
DenseForward(layer, input) ==
    [layer EXCEPT !.input = input, !.output = Dot(input, layer.weights)]

\* DenseUpdate with dW taken from the layer's output instead of grad.
DenseUpdateFromOutput(W, input, grad, rate) ==
    MatSub(W, MatScale(Transpose(Dot(Transpose(Dot(input, W)), input)), rate))

\* The weights Dense.backward leaves: weights -= dW * lr with
\* dW = (grad.T . input).T
DenseUpdate(W, input, grad, rate) ==
    MatSub(W, MatScale(Transpose(Dot(Transpose(grad), input)), rate))

\* What Dense.backward returns: dZ = grad . weights.T, with the weights as
\* they are before the update.
DenseInputGrad(W, grad) == Dot(grad, Transpose(W))

DenseBackward(layer, grad, rate) ==
    [layer EXCEPT !.weights = DenseUpdate(layer.weights, layer.input, grad, rate)]

\* Softplus.forward, Softmax.forward
SoftplusForward(layer, z) == [layer EXCEPT !.input = z, !.output = SoftplusMat(z)]

SoftmaxForward(layer, z) == [layer EXCEPT !.input = z, !.output = SoftmaxMat(z)]

\* layer.forward(input), by the layer's class.
LayerForward(layer, input) ==
    IF layer.type = "Dense" THEN DenseForward(layer, input)
    ELSE IF layer.type = "Softplus" THEN SoftplusForward(layer, input)
    ELSE SoftmaxForward(layer, input)

\* What layer.backward(grad, lr) returns, by the layer's class.
LayerBackwardGrad(layer, grad) ==
    IF layer.type = "Dense" THEN DenseInputGrad(layer.weights, grad)
    ELSE IF layer.type = "Softplus" THEN MatMul(SigmoidMat(layer.input), grad)
    ELSE grad

\* The layer after layer.backward(grad, lr): only a Dense changes.
LayerBackward(layer, grad, rate) ==
    IF layer.type = "Dense" THEN DenseBackward(layer, grad, rate) ELSE layer

----------------------------------------------------------------------------
(* The network of simplest-nn-oo.py. *)

\* The (input_size, output_size) of every Dense that construction asks for,
\* in order: n x h1, h1 x h2, ..., hk x 10.
DenseShapes(hid, n) ==
    Vec([l \in 1..(Len(hid) + 1) |->
        <<IF l = 1 THEN n ELSE hid[l - 1],
          IF l <= Len(hid) THEN hid[l] ELSE Classes>>])

\* The first error among the Dense constructions, or "ok".
RECURSIVE FirstInitError(_)
FirstInitError(shapes) ==
    IF Len(shapes) = 0 THEN "ok"
    ELSE IF DenseInitError(shapes[1][1], shapes[1][2]) # "ok"
         THEN DenseInitError(shapes[1][1], shapes[1][2])
         ELSE FirstInitError(Tail(shapes))

\* What Net.init_layers raises: layers[-1] of an empty list is an IndexError.
InitLayersError(hid, n) ==
    IF Len(hid) = 0 THEN "IndexError" ELSE FirstInitError(DenseShapes(hid, n))

\* init_layers giving every hidden Dense n inputs (the test l == 0 lost).
init_layers_all_n(hid, n, s) ==
    LET num_layers == Len(hid) IN
    Vec([i \in 1..(2 * (num_layers + 1)) |->
        LET l == (i + 1) \div 2 IN
        IF i % 2 = 1
        THEN IF l <= num_layers
             THEN Dense(s, l, n, hid[l])
             ELSE Dense(s, l, hid[num_layers], Classes)
        ELSE IF l <= num_layers THEN Softplus ELSE Softmax])

\* Net.init_layers: a (Dense, Softplus) pair per hidden width, then
\* (Dense, Softmax).
init_layers(hid, n, s) ==
    LET num_layers == Len(hid) IN
    Vec([i \in 1..(2 * (num_layers + 1)) |->
        LET l == (i + 1) \div 2 IN
        IF i % 2 = 1
        THEN IF l <= num_layers
             THEN Dense(s, l, IF l = 1 THEN n ELSE hid[l - 1], hid[l])
             ELSE Dense(s, l, hid[num_layers], Classes)
        ELSE IF l <= num_layers THEN Softplus ELSE Softmax])

\* Net.forward: the layers with their caches after the pass, and the output.
RECURSIVE NetForwardFrom(_, _, _)
NetForwardFrom(ls, i, input) ==
    IF i > Len(ls) THEN [layers |-> ls, output |-> input]
    ELSE LET done == LayerForward(ls[i], input)
         IN  NetForwardFrom([ls EXCEPT ![i] = done], i + 1, done.output)

NetForward(ls, batch) == NetForwardFrom(ls, 1, batch)

\* Net.backward: the gradient goes through the layers in reverse order.
RECURSIVE NetBackwardFrom(_, _, _, _)
NetBackwardFrom(ls, i, grad, rate) ==
    IF i = 0 THEN ls
    ELSE NetBackwardFrom([ls EXCEPT ![i] = LayerBackward(ls[i], grad, rate)],
                         i - 1, LayerBackwardGrad(ls[i], grad), rate)

\* grad = (1/batch.shape[0]) * error
ScaleError(error, m) ==
    Vec([i \in 1..Len(error) |-> Vec([j \in 1..Len(error[i]) |-> Quot(error[i][j], m)])])

NetBackward(ls, batch, error, rate) ==
    NetBackwardFrom(ls, Len(ls), ScaleError(error, Len(batch)), rate)

\* The weight matrices of the Dense layers, in order.
DenseWeights(ls) == Vec([l \in 1..(Len(ls) \div 2) |-> ls[2 * l - 1].weights])

----------------------------------------------------------------------------
(* The functions of simplest-nn.py. *)

\* What init_weights raises.
InitWeightsError(hid, n) == FirstInitError(DenseShapes(hid, n))

\* init_weights(layers, n): one matrix per entry of layers + [10].
init_weights(hid, n, s) ==
    LET widths == hid \o <<Classes>> IN
    Vec([l \in 1..Len(widths) |->
        Randn(s, l, IF l = 1 THEN n ELSE hid[l - 1], widths[l])])

\* forward(input, weights): the (Z, A) pair of every layer.  With a single
\* weight matrix outputs[-1] is taken of an empty list (IndexError).
RECURSIVE FnHidden(_, _, _, _)
FnHidden(input, ws, i, outputs) ==
    IF i > Len(ws) - 1 THEN outputs
    ELSE LET Z == IF i = 1 THEN Dot(input, ws[i])
                  ELSE Dot(outputs[Len(outputs)].A, ws[i])
         IN  FnHidden(input, ws, i + 1, Append(outputs, [Z |-> Z, A |-> SoftplusMat(Z)]))

FnForwardError(ws) == IF Len(ws) <= 1 THEN "IndexError" ELSE "ok"

FnForward(input, ws) ==
    LET outputs == FnHidden(input, ws, 1, <<>>)
        ZF == Dot(outputs[Len(outputs)].A, ws[Len(ws)])
    IN  Append(outputs, [Z |-> ZF, A |-> SoftmaxMat(ZF)])

\* FnBackwardLoop with dZ computed after the weight update, from the updated
\* weights.
RECURSIVE FnBackwardLoopStale(_, _, _, _, _)
FnBackwardLoopStale(ws, fp, grad, i, rate) ==
    IF i >= Len(fp) - 1 THEN [weights |-> ws, grad |-> grad]
    ELSE LET l == fp[Len(fp) - 1 - i]
             w == Len(ws) - i
             dW == Transpose(Dot(Transpose(grad), l.A))
             updated == MatSub(ws[w], MatScale(dW, rate))
             dZ == Dot(grad, Transpose(updated))
             dA == MatMul(SigmoidMat(l.Z), dZ)
         IN  FnBackwardLoopStale([ws EXCEPT ![w] = updated], fp, dA, i + 1, rate)

\* The loop of backward: pass i (from 0) takes the i-th last hidden layer's
\* (Z, A) and updates weights[-(i+1)].
RECURSIVE FnBackwardLoop(_, _, _, _, _)
FnBackwardLoop(ws, fp, grad, i, rate) ==
    IF i >= Len(fp) - 1 THEN [weights |-> ws, grad |-> grad]
    ELSE LET l == fp[Len(fp) - 1 - i]
             w == Len(ws) - i
             dW == Transpose(Dot(Transpose(grad), l.A))
             dZ == Dot(grad, Transpose(ws[w]))
             dA == MatMul(SigmoidMat(l.Z), dZ)
         IN  FnBackwardLoop([ws EXCEPT ![w] = MatSub(ws[w], MatScale(dW, rate))],
                            fp, dA, i + 1, rate)

\* backward(batch, error, weights, forward_pass, lr): the weights it leaves.
FnBackward(batch, error, ws, fp, rate) ==
    LET after == FnBackwardLoop(ws, fp, ScaleError(error, Len(batch)), 0, rate)
        dWF == Transpose(Dot(Transpose(after.grad), batch))
    IN  [after.weights EXCEPT ![1] = MatSub(after.weights[1], MatScale(dWF, rate))]

----------------------------------------------------------------------------
(* One batch of the training loop. *)

\* The rows numpy broadcasting gives output - batch[1] for an output of rx
\* rows and a target of ry rows; -1 when the shapes do not broadcast.
ErrorRows(rx, ry) ==
    IF rx = ry THEN rx
    ELSE IF rx = 1 THEN ry
    ELSE IF ry = 1 THEN rx
    ELSE -1

\* A of r rows, or its single row repeated r times.
Broadcast(A, r) == Vec([i \in 1..r |-> IF Len(A) = 1 THEN A[1] ELSE A[i]])

\* error = output - batch[1]
ErrorOf(output, y) ==
    LET r == ErrorRows(Len(output), Len(y))
    IN  MatSub(Broadcast(output, r), Broadcast(y, r))

\* What one pass of the batch loop raises, and where.  The forward pass takes
\* any batch, an empty one too (fn: outputs[-1] of an empty list with no hidden
\* layer); the subtraction needs shapes that broadcast; backward divides 1 by
\* the batch's row count before anything else, and its first dot product
\* needs as many gradient rows as cached input rows.
StepError(imp, ws, rx, ry) ==
    IF imp = "fn" /\ FnForwardError(ws) # "ok" THEN [at |-> "forward", kind |-> "IndexError"]
    ELSE IF ErrorRows(rx, ry) = -1 THEN [at |-> "error", kind |-> "ValueError"]
    ELSE IF rx = 0 THEN [at |-> "backward", kind |-> "ZeroDivisionError"]
    ELSE IF ErrorRows(rx, ry) # rx THEN [at |-> "backward", kind |-> "ValueError"]
    ELSE [at |-> "none", kind |-> "ok"]

\* blas.mean(error**2)
MeanSquare(error) ==
    Frac(SumSeq(Vec([i \in 1..Len(error) |->
                   SumSeq(Vec([j \in 1..Len(error[i]) |-> error[i][j] * error[i][j]]))])),
         Len(error) * Classes)

\* blas.count_nonzero(argmax(output, axis=1) == argmax(y, axis=1)), the two
\* argmax vectors broadcast together.
CountCorrect(output, y) ==
    LET r == ErrorRows(Len(output), Len(y))
        o == Broadcast(output, r)
        t == Broadcast(y, r)
    IN  Cardinality({i \in 1..r : ArgMax(o[i]) = ArgMax(t[i])})

\* The weight matrices, whichever implementation holds them.
CurWeights == IF impl = "oo" THEN DenseWeights(layers) ELSE weights

----------------------------------------------------------------------------
(* The inputs of a run. *)

Impls == {"oo", "fn"}
Seeds == {0, 1, 2}
FeatureCounts == {1, 2}
Labels == {1, 2}
Rates == {1}
Durations == {15}               \* wall-clock milliseconds of one cycle
ValidHidden == {<<1>>, <<2>>, <<2, 1>>}
InvalidHidden == {<<>>, <<0>>, <<-1>>, <<1, 0>>}

\* Normalised pixels: n features per row, each 0 or 1.
XData(rows, n) == Vec([i \in 1..rows |-> Vec([j \in 1..n |-> (i + j) % 2])])

\* How many of the four things a configuration can get wrong it gets wrong.
Invalidities(hid, bs, cyc, m, my) ==
    (IF hid \in InvalidHidden THEN 1 ELSE 0) + (IF bs <= 0 THEN 1 ELSE 0)
    + (IF cyc <= 0 THEN 1 ELSE 0) + (IF m # my THEN 1 ELSE 0)

InvalidConfig ==
    Invalidities(hidden, batch_size, cycles, Len(train_x), Len(train_y)) > 0

NoCalls == [fwd |-> 0, bwd |-> 0, upd |-> 0]
NoError == [at |-> "none", kind |-> "ok"]

\* The state every run starts from, the configuration aside.
Idle ==
    /\ layers = <<>> /\ weights = <<>> /\ batches = <<>>
    /\ e = 0 /\ idxs = None
    /\ cycle = 0 /\ b = 0 /\ cost = <<0, 1>> /\ acc = <<0, 1>>
    /\ costs = <<>> /\ accs = <<>> /\ times = <<>>
    /\ stats = None /\ tests = <<>>
    /\ calls = NoCalls /\ last_call = None
    /\ err = NoError

Init ==
    \E imp \in Impls, m \in 1..MaxRows, my \in 1..MaxRows, n \in FeatureCounts,
       hid \in ValidHidden \cup InvalidHidden, cyc \in (-1)..MaxCycles,
       bs \in (-1)..(MaxRows + 1), s \in Seeds, rate \in Rates :
      \E lab \in [1..my -> Labels] :
        /\ Invalidities(hid, bs, cyc, m, my) <= 1
        /\ Invalidities(hid, bs, cyc, m, my) = 1 => s = 0 /\ n = 1
        /\ imp = "fn" => bs = 1
        /\ impl = imp
        /\ train_x = XData(m, n)
        /\ train_y = one_hot(lab, Classes)
        /\ test_x = XData(2, n)
        /\ test_y = one_hot(<<1, 2>>, Classes)
        /\ hidden = hid /\ cycles = cyc /\ lr = rate /\ seed = s
        /\ batch_size = IF imp = "fn" THEN FnBatchSize ELSE bs
        /\ pc = "start"
        /\ Idle

----------------------------------------------------------------------------
(* The run: construction, batching, the training loop, testing. *)

Fail(at, kind) ==
    /\ pc' = "error"
    /\ err' = [at |-> at, kind |-> kind]

\* oo: Net.__init__ builds the layers.  fn: train builds the weights (it
\* passes the literal 784, the column count of the MNIST matrix it is given;
\* here the feature count of train_x).
Construct ==
    /\ pc = "start"
    /\ LET n == NCols(train_x)
           bad == IF impl = "oo" THEN InitLayersError(hidden, n)
                  ELSE InitWeightsError(hidden, n)
       IN  IF bad # "ok"
           THEN /\ Fail("construct", bad)
                /\ UNCHANGED netvars
           ELSE /\ pc' = "batching"
                /\ err' = err
                /\ layers' = IF impl = "oo" THEN init_layers(hidden, n, seed) ELSE layers
                /\ weights' = IF impl = "fn" THEN init_weights(hidden, n, seed) ELSE weights
    /\ UNCHANGED <<cfgvars, batches, bdvars, loopvars, stats, tests, calls, last_call>>

\* train calls batch_data, which raises in its first pass or not at all; the
\* shuffled copies are locals that nothing reads.  oo then reads batches[0],
\* an IndexError when there is no cycle.
BatchData ==
    /\ pc = "batching"
    /\ IF cycles > 0 /\ CycleError(Len(train_x), Len(train_y), batch_size) # "ok"
       THEN /\ Fail("batch_data", CycleError(Len(train_x), Len(train_y), batch_size))
            /\ UNCHANGED batches
       ELSE IF impl = "oo" /\ cycles <= 0
       THEN /\ Fail("train", "IndexError")
            /\ UNCHANGED batches
       ELSE /\ batches' = batch_data(Len(train_x), Len(train_y), batch_size, cycles)
            /\ pc' = "loop"
            /\ err' = err
    /\ UNCHANGED <<cfgvars, netvars, bdvars, loopvars, stats, tests, calls, last_call>>

\* EarlyStop with the guard on the cycle off by one.
EarlyStopLate(cyc, hist) == cyc > 1 /\ FracGeq(hist[Len(hist)], 100)

\* (cycle > 0) and (accs[-1] >= 100.0)
EarlyStop(cyc, hist) == cyc > 0 /\ FracGeq(hist[Len(hist)], 100)

\* The head of `for cycle in range(cycles)`: the previous cycle did not
\* record 100%.
BeginCycle ==
    /\ pc = "loop"
    /\ cycle < cycles
    /\ ~EarlyStop(cycle, accs)
    /\ pc' = "batch"
    /\ b' = 1
    /\ cost' = <<0, 1>>
    /\ acc' = <<0, 1>>
    /\ UNCHANGED <<cfgvars, netvars, batches, bdvars, cycle, costs, accs, times,
                   stats, tests, calls, last_call, err>>

\* if (cycle > 0) and (accs[-1] >= 100.0): break
Converged ==
    /\ pc = "loop"
    /\ cycle < cycles
    /\ EarlyStop(cycle, accs)
    /\ pc' = "after"
    /\ UNCHANGED <<cfgvars, netvars, batches, bdvars, loopvars, stats, tests, calls,
                   last_call, err>>

\* range(cycles) is used up.
Exhausted ==
    /\ pc = "loop"
    /\ cycle >= cycles
    /\ pc' = "after"
    /\ UNCHANGED <<cfgvars, netvars, batches, bdvars, loopvars, stats, tests, calls,
                   last_call, err>>

\* One pass of `for b, batch in enumerate(current_batches)`: forward, error,
\* backward, the two running sums.
TrainBatch ==
    /\ pc = "batch"
    /\ b <= Len(batches[cycle + 1])
    /\ LET batch == batches[cycle + 1][b]
           x == Take(train_x, batch.x)
           y == Take(train_y, batch.y)
           bad == StepError(impl, weights, Len(x), Len(y))
       IN  IF bad.kind # "ok"
           THEN /\ Fail(bad.at, bad.kind)
                /\ calls' = [calls EXCEPT !.fwd = @ + 1,
                                          !.bwd = IF bad.at = "backward" THEN @ + 1 ELSE @]
                /\ UNCHANGED <<netvars, b, cost, acc>>
           ELSE LET fwd == NetForward(layers, x)
                    fp == FnForward(x, weights)
                    output == IF impl = "oo" THEN fwd.output ELSE fp[Len(fp)].A
                    error == ErrorOf(output, y)
                IN  /\ layers' = IF impl = "oo" THEN NetBackward(fwd.layers, x, error, lr)
                                  ELSE layers
                    /\ weights' = IF impl = "fn" THEN FnBackward(x, error, weights, fp, lr)
                                   ELSE weights
                    /\ cost' = FracAdd(cost, MeanSquare(error))
                    /\ acc' = FracAdd(acc, Frac(CountCorrect(output, y), Len(x)))
                    /\ b' = b + 1
                    /\ calls' = [fwd |-> calls.fwd + 1, bwd |-> calls.bwd + 1,
                                 upd |-> calls.upd + 1]
                    /\ pc' = pc
                    /\ err' = err
    /\ UNCHANGED <<cfgvars, batches, bdvars, cycle, costs, accs, times, stats, tests,
                   last_call>>

\* blas_append writing v over the last entry of a history that has one.
blas_append_overwrite(arr, v) ==
    IF Len(arr) = 0 THEN <<v>> ELSE [arr EXCEPT ![Len(arr)] = v]

\* blas.append(arr, v): a copy of arr with v after its last entry.
blas_append(arr, v) == Append(arr, v)

\* The batches of the cycle are used up: the cycle's cost, accuracy and
\* duration are appended.  batch_count is len(batches[0]) in oo and
\* len(current_batches) in fn.
EndCycle ==
    /\ pc = "batch"
    /\ b > Len(batches[cycle + 1])
    /\ \E d \in Durations :
         LET batch_count == IF impl = "oo" THEN Len(batches[1])
                            ELSE Len(batches[cycle + 1])
         IN  /\ costs' = blas_append(costs, FracDivInt(cost, batch_count))
             /\ accs' = blas_append(accs, FracDivInt(FracMulInt(acc, 100), batch_count))
             /\ times' = blas_append(times, d)
    /\ cycle' = cycle + 1
    /\ pc' = "loop"
    /\ UNCHANGED <<cfgvars, netvars, batches, bdvars, b, cost, acc, stats, tests, calls,
                   last_call, err>>

\* After the loop: the rounded copies of the histories and the summary
\* numbers.  accs[-1] of an empty history is an IndexError.
TrainReturn ==
    /\ pc = "after"
    /\ IF Len(accs) = 0
       THEN /\ Fail("train", "IndexError")
            /\ UNCHANGED stats
       ELSE LET racc == Vec([i \in 1..Len(accs) |-> Around(accs[i], 5)]) IN
            /\ stats' = [costs |-> [i \in 1..Len(costs) |-> Around(costs[i], 5)],
                         accs |-> racc,
                         times |-> [i \in 1..Len(times) |-> Around(<<times[i], 1000>>, 2)],
                         train_time |-> Around(<<SumSeq(times), 1000>>, 2),
                         avg_time |-> Around(<<SumSeq(times), 1000 * Len(times)>>, 2),
                         train_acc_delta |-> RoundHalfEven(racc[Len(racc)] - racc[1], 1000)]
            /\ pc' = "trained"
            /\ err' = err
    /\ UNCHANGED <<cfgvars, netvars, batches, bdvars, loopvars, tests, calls, last_call>>

\* TestPass with the training step's backward call left in.
TestPassTrains(imp, ls, ws, x) ==
    IF imp = "oo"
    THEN LET fwd == NetForward(ls, x)
         IN  [layers |-> NetBackward(fwd.layers, x, ErrorOf(fwd.output, test_y), lr),
              weights |-> ws, output |-> fwd.output]
    ELSE LET fp == FnForward(x, ws)
         IN  [layers |-> ls,
              weights |-> FnBackward(x, ErrorOf(fp[Len(ws)].A, test_y), ws, fp, lr),
              output |-> fp[Len(ws)].A]

\* The pass of Net.test / test over x: the network it leaves (oo: the layers
\* with their caches overwritten) and the output.
TestPass(imp, ls, ws, x) ==
    IF imp = "oo"
    THEN LET fwd == NetForward(ls, x)
         IN  [layers |-> fwd.layers, weights |-> ws, output |-> fwd.output]
    ELSE [layers |-> ls, weights |-> ws, output |-> FnForward(x, ws)[Len(ws)].A]

\* Net.test / test: one forward pass over the test set; the accuracy rounded
\* to 5 decimals and the prediction matrix are returned.
Test ==
    /\ pc = "trained"
    /\ Len(tests) < MaxTests
    /\ LET after == TestPass(impl, layers, weights, test_x)
           count == CountCorrect(after.output, test_y)
       IN  /\ layers' = after.layers
           /\ weights' = after.weights
           /\ tests' = Append(tests, [acc |-> Around(<<100 * count, Len(test_x)>>, 5),
                                      output |-> after.output])
           /\ calls' = [calls EXCEPT !.fwd = @ + 1]
    /\ UNCHANGED <<cfgvars, batches, bdvars, loopvars, stats, last_call, pc, err>>

Next ==
    \/ Construct
    \/ BatchData
    \/ BeginCycle
    \/ Converged
    \/ Exhausted
    \/ TrainBatch
    \/ EndCycle
    \/ TrainReturn
    \/ Test

Spec == Init /\ [][Next]_vars

----------------------------------------------------------------------------
(* batch_data on its own, one pass of its outer loop at a time. *)

InitBatch ==
    \E m \in 1..MaxRows, my \in 1..MaxRows, bs \in 0..(MaxRows + 1), cyc \in 1..MaxCycles :
        /\ impl = "oo"
        /\ train_x = XData(m, 1)
        /\ train_y = one_hot(Vec([i \in 1..my |-> 1]), Classes)
        /\ test_x = <<>> /\ test_y = <<>>
        /\ hidden = <<1>> /\ cycles = cyc /\ lr = 1 /\ seed = 0
        /\ batch_size = bs
        /\ pc = "bd_loop"
        /\ Idle

\* One pass of `for e in range(cycles)`: shuffle, then the cycle's batches.
BatchCycle ==
    /\ pc = "bd_loop"
    /\ e < cycles
    /\ LET bad == CycleError(Len(train_x), Len(train_y), batch_size)
       IN  IF bad # "ok"
           THEN /\ Fail("batch_data", bad)
                /\ UNCHANGED <<batches, e, idxs>>
           ELSE \E p \in Perms(Len(train_x)) :
                  /\ idxs' = shuffle(Vec(p))
                  /\ batches' = Append(batches,
                         CycleBatches(Len(train_x), Len(train_y), batch_size))
                  /\ e' = e + 1
                  /\ pc' = pc
                  /\ err' = err
    /\ UNCHANGED <<cfgvars, netvars, loopvars, stats, tests, calls, last_call>>

\* return train_batches
BatchReturn ==
    /\ pc = "bd_loop"
    /\ e >= cycles
    /\ pc' = "bd_done"
    /\ idxs' = None
    /\ UNCHANGED <<cfgvars, netvars, batches, e, loopvars, stats, tests, calls,
                   last_call, err>>

NextBatch == BatchCycle \/ BatchReturn

SpecBatch == InitBatch /\ [][NextBatch]_vars

----------------------------------------------------------------------------
(* One Dense layer on its own: forward and backward calls in any order, *)
(* backward only once forward has cached an input.                      *)

DenseRates == {1, 2}

\* Inputs of one or two rows, pixels 0 or 1.
DenseInputs(r) ==
    {Vec([i \in 1..m |-> Vec([j \in 1..r |-> (i + j + t) % 2])]) : m \in 1..2, t \in 0..1}

\* Gradients of m rows: all entries -1, all 0, all 1, or alternating.
DenseGrads(m, c) ==
    {Vec([i \in 1..m |-> Vec([j \in 1..c |-> g])]) : g \in (-1)..1}
    \cup {Vec([i \in 1..m |-> Vec([j \in 1..c |-> ((i + j) % 2) * 2 - 1])])}

InitDense ==
    \E s \in Seeds, r \in 1..2, c \in 1..2 :
        /\ impl = "oo"
        /\ train_x = <<>> /\ train_y = <<>> /\ test_x = <<>> /\ test_y = <<>>
        /\ hidden = <<>> /\ cycles = 0 /\ lr = 0 /\ seed = s
        /\ batch_size = 0
        /\ pc = "dense"
        /\ weights = <<>> /\ batches = <<>>
        /\ e = 0 /\ idxs = None
        /\ cycle = 0 /\ b = 0 /\ cost = <<0, 1>> /\ acc = <<0, 1>>
        /\ costs = <<>> /\ accs = <<>> /\ times = <<>>
        /\ stats = None /\ tests = <<>>
        /\ calls = NoCalls /\ last_call = None
        /\ err = NoError
        /\ layers = <<Dense(s, 1, r, c)>>

DenseForwardCall ==
    /\ pc = "dense"
    /\ calls.fwd < MaxSteps
    /\ \E input \in DenseInputs(Len(layers[1].weights)) :
         /\ layers' = <<DenseForward(layers[1], input)>>
         /\ last_call' = [op |-> "forward", arg |-> input, lr |-> 0]
    /\ calls' = [calls EXCEPT !.fwd = @ + 1]
    /\ UNCHANGED <<cfgvars, weights, batches, bdvars, loopvars, stats, tests, pc, err>>

DenseBackwardCall ==
    /\ pc = "dense"
    /\ calls.bwd < MaxSteps
    /\ layers[1].input # None
    /\ \E grad \in DenseGrads(Len(layers[1].input), NCols(layers[1].weights)),
          rate \in DenseRates :
         /\ layers' = <<DenseBackward(layers[1], grad, rate)>>
         /\ last_call' = [op |-> "backward", arg |-> grad, lr |-> rate]
    /\ calls' = [calls EXCEPT !.bwd = @ + 1, !.upd = @ + 1]
    /\ UNCHANGED <<cfgvars, weights, batches, bdvars, loopvars, stats, tests, pc, err>>

NextDense == DenseForwardCall \/ DenseBackwardCall

SpecDense == InitDense /\ [][NextDense]_vars

----------------------------------------------------------------------------
(* The claims. *)

RECURSIVE Concat(_)
Concat(ss) == IF Len(ss) = 0 THEN <<>> ELSE ss[1] \o Concat(Tail(ss))

\* The x (or y) row indices of a batch list, batch after batch.
RowsX(bl) == Concat(Vec([k \in 1..Len(bl) |-> bl[k].x]))
RowsY(bl) == Concat(Vec([k \in 1..Len(bl) |-> bl[k].y]))

\* batch_data was given what C1 and C3 ask for: X and Y of N rows each and
\* 1 <= batch_size <= N.
ValidBatching ==
    /\ Len(train_x) = Len(train_y)
    /\ 1 <= batch_size /\ batch_size <= Len(train_x)

\* C1: for 1 <= batch_size <= N every cycle's batch list covers every row
\* index exactly once, its batch sizes sum to N, and the x slice and the y
\* slice of every batch hold the same row indices.
C1_BatchesCoverEveryRow ==
    (pc \in {"bd_loop", "bd_done"} /\ ValidBatching) =>
        \A c \in 1..Len(batches) :
            /\ Len(RowsX(batches[c])) = Len(train_x)
            /\ \A r \in 1..Len(train_x) :
                 Cardinality({i \in 1..Len(RowsX(batches[c])) : RowsX(batches[c])[i] = r}) = 1
            /\ \A k \in 1..Len(batches[c]) : batches[c][k].x = batches[c][k].y

\* C2: right after a pass of batch_data's loop, the rows of that cycle's
\* batches, in order, are the rows of X and of Y in the order of the
\* permutation shuffle drew for the cycle.
C2_BatchesAreShuffled ==
    (pc = "bd_loop" /\ e >= 1) =>
        /\ RowsX(batches[e]) = idxs.x
        /\ RowsY(batches[e]) = idxs.y

\* C3: for 1 <= batch_size <= N every cycle's batch list is
\* floor(N/batch_size) - 1 batches of batch_size rows, then one batch with
\* all the remaining rows, of batch_size to 2*batch_size - 1 rows.
C3_FullBatchesThenRemainder ==
    (pc \in {"bd_loop", "bd_done"} /\ ValidBatching) =>
        \A c \in 1..Len(batches) :
            LET bl == batches[c]
                full == (Len(train_x) \div batch_size) - 1
                last == bl[Len(bl)]
            IN  /\ Len(bl) = full + 1
                /\ \A k \in 1..full : Len(bl[k].x) = batch_size
                /\ Len(last.x) = Len(train_x) - full * batch_size
                /\ batch_size <= Len(last.x) /\ Len(last.x) <= 2 * batch_size - 1

\* The cycles (from 1) that recorded an accuracy of 100% or more.
FullCycles == {i \in 1..Len(accs) : FracGeq(accs[i], 100)}

\* C4: once a cycle has recorded 100% no later cycle runs (no batch goes
\* through forward/backward, no entry is appended), and train returns
\* histories as long as the cycles up to and including that one; when no
\* cycle records 100% train returns histories of `cycles` entries.
C4_EarlyStop ==
    /\ \A i \in FullCycles : i = Len(accs)
    /\ pc = "batch" => FullCycles = {}
    /\ pc \in {"trained"} =>
         /\ Len(stats.costs) = Len(accs)
         /\ Len(stats.accs) = Len(accs)
         /\ Len(stats.times) = Len(accs)
         /\ FullCycles = {} => Len(accs) = cycles
         /\ FullCycles # {} => \A k \in FullCycles : Len(accs) = k /\ k <= cycles

\* A run that stopped early: the first cycle of three recorded 100%.
C4_Witness ==
    /\ pc = "trained"
    /\ FullCycles # {}
    /\ Len(stats.accs) < cycles

\* C5: an invalid configuration never gets a batch through forward or
\* backward, never has a weight matrix updated, and never trains to the end.
C5_InvalidConfigRejected ==
    InvalidConfig => (calls = NoCalls /\ pc # "trained")

\* C6: a call of test leaves every weight matrix as it was, and two calls in
\* a row return the same accuracy and the same prediction matrix.
C6_TestIsPure ==
    /\ [][(pc = "trained" /\ Len(tests') = Len(tests) + 1) => CurWeights' = CurWeights]_vars
    /\ [](Len(tests) >= 2 => tests[1] = tests[2])

\* test ran twice on a trained network of the Net class, whose layers cache
\* the test inputs.
C6_Witness ==
    /\ Len(tests) = 2
    /\ impl = "oo"
    /\ layers[1].input = test_x
    /\ calls.upd >= 2

Constructed == pc \notin {"start", "error", "bd_loop", "bd_done", "dense"}
               \/ (pc = "error" /\ err.at # "construct")

ValidWidths == Len(hidden) >= 1 /\ \A l \in 1..Len(hidden) : hidden[l] >= 1

\* The shape a Dense weight matrix must have at position l (from 1) of k + 1.
ShapeAt(Ws, l) ==
    /\ NRows(Ws[l]) = (IF l = 1 THEN NCols(train_x) ELSE hidden[l - 1])
    /\ NCols(Ws[l]) = (IF l <= Len(hidden) THEN hidden[l] ELSE Classes)
    /\ l > 1 => NRows(Ws[l]) = NCols(Ws[l - 1])

\* C8: for k >= 1 hidden widths construction goes through and yields 2(k+1)
\* layers Dense, Softplus, ..., Dense, Softplus, Dense, Softmax (fn: k+1
\* weight matrices), the Dense shapes n x h1, h1 x h2, ..., hk x 10.
C8_ConstructedLayers ==
    /\ (pc = "error" /\ err.at = "construct") => ~ValidWidths
    /\ (Constructed /\ Len(hidden) >= 1) =>
         LET k == Len(hidden) IN
         /\ Len(CurWeights) = k + 1
         /\ \A l \in 1..(k + 1) : ShapeAt(CurWeights, l)
         /\ impl = "oo" =>
              /\ Len(layers) = 2 * (k + 1)
              /\ \A i \in 1..Len(layers) :
                   layers[i].type = (IF i % 2 = 1 THEN "Dense"
                                     ELSE IF i = Len(layers) THEN "Softmax"
                                     ELSE "Softplus")

\* A Net of two hidden layers, just built.
C8_Witness ==
    /\ pc = "batching"
    /\ impl = "oo"
    /\ hidden = <<2, 1>>
    /\ Len(layers) = 6

\* C9: a backward call with an all-zero gradient, after a forward call, leaves
\* the weights of the Dense layer as they were.
C9_ZeroGradKeepsWeights ==
    [][(pc = "dense" /\ calls'.bwd = calls.bwd + 1 /\ IsZero(last_call'.arg))
         => layers'[1].weights = layers[1].weights]_vars

\* A zero-gradient backward call on non-zero weights that earlier calls have
\* changed, with a non-zero cached input.
C9_Witness ==
    /\ pc = "dense"
    /\ last_call # None /\ last_call.op = "backward" /\ IsZero(last_call.arg)
    /\ calls.bwd = 2
    /\ ~IsZero(layers[1].input)
    /\ layers[1].weights # Randn(seed, 1, NRows(layers[1].weights), NCols(layers[1].weights))

\* The Net that holds the weight matrices Ws.
AsLayers(Ws) ==
    Vec([i \in 1..(2 * Len(Ws)) |->
        IF i % 2 = 1 THEN [type |-> "Dense", weights |-> Ws[(i + 1) \div 2],
                           input |-> None, output |-> None]
        ELSE IF i = 2 * Len(Ws) THEN Softmax ELSE Softplus])

\* The batch the loop is about to process can be trained on.
AtTrainableBatch ==
    /\ pc = "batch"
    /\ b <= Len(batches[cycle + 1])
    /\ StepError("fn", CurWeights, Len(batches[cycle + 1][b].x),
                 Len(batches[cycle + 1][b].y)).kind = "ok"

\* C10: from the same weights, batch, error and learning rate, the backward
\* of simplest-nn.py and Net.backward leave the same weight matrices (and the
\* two forward passes give the same output).
C10_BackwardsAgree ==
    AtTrainableBatch =>
        LET batch == batches[cycle + 1][b]
            x == Take(train_x, batch.x)
            y == Take(train_y, batch.y)
            fwd == NetForward(AsLayers(CurWeights), x)
            fp == FnForward(x, CurWeights)
            error == ErrorOf(fwd.output, y)
        IN  /\ fp[Len(fp)].A = fwd.output
            /\ FnBackward(x, error, CurWeights, fp, lr)
                 = DenseWeights(NetBackward(fwd.layers, x, error, lr))

\* A step of a network with two hidden layers that changes all three weight
\* matrices.
C10_Witness ==
    /\ AtTrainableBatch
    /\ Len(hidden) = 2
    /\ LET batch == batches[cycle + 1][b]
           x == Take(train_x, batch.x)
           fp == FnForward(x, CurWeights)
           after == FnBackward(x, ErrorOf(fp[Len(fp)].A, Take(train_y, batch.y)),
                               CurWeights, fp, lr)
       IN  \A l \in 1..3 : after[l] # CurWeights[l]

====
